---- MODULE Spec2Model ----
(***************************************************************************)
(* A model of jedi/evaluate/dynamic.py: the call-site scanner              *)
(* (_scan_statement), module discovery (get_directory_modules_for_name),   *)
(* dynamic parameter inference (search_params) and flow narrowing          *)
(* (check_flow_information).                                               *)
(***************************************************************************)
EXTENDS Integers, Sequences, FiniteSets, TLC

VARIABLES
    \* ---- call-site scanner
    stmt,           \* the statement handed to _scan_statement
    stmt_size,      \* number of syntax nodes of stmt
    scan_out,       \* NoneV, or the record of one _scan_statement call
    \* ---- jedi.settings
    settings,       \* the four options dynamic.py reads
    \* ---- flow narrowing
    flow,           \* the flow context handed to check_flow_information
    narrow_out,     \* NoneV, or the record of one check_flow_information call
    \* ---- module discovery
    fs,             \* the file system: path -> file
    parser_cache,   \* the paths that are keys of cache.parser_cache
    gen,            \* the generator get_directory_modules_for_name returned
    yielded,        \* the modules the generator has yielded, in order
    disc_log,       \* what check_python_file did for each path it was given
    \* ---- parameter inference
    ipc,            \* where the running search_params call stands ("idle": none)
    cur,            \* the locals of the running search_params call
    listeners,      \* func.listeners
    memo,           \* the memoize table of search_params: param -> result
    last,           \* how the last search_params call ended
    ncalls,         \* number of search_params calls made
    search_out      \* NoneV, or the record of one get_posibilities call

scan_vars == <<stmt, stmt_size, scan_out>>
narrow_vars == <<flow, narrow_out>>
world_vars == <<fs, parser_cache>>
disc_vars == <<gen, yielded, disc_log>>
infer_vars == <<ipc, cur, listeners, memo, last, ncalls>>
vars == <<stmt, stmt_size, scan_out, settings, flow, narrow_out,
          fs, parser_cache, gen, yielded, disc_log,
          ipc, cur, listeners, memo, last, ncalls, search_out>>

\* Python's None; also "no call made yet" for the *_out variables.
NoneV == [type |-> "None"]

Range(s) == {s[i] : i \in 1..Len(s)}

(***************************************************************************)
(* Syntax nodes (jedi.parser.representation), as far as dynamic.py reads   *)
(* them.                                                                   *)
(***************************************************************************)
\* a pr.Name: the dotted name a.b.c of one link, names = <<a, b, c>>
MkName(names) == [type |-> "Name", names |-> names]
\* what a link's .name holds when the link is a literal: not a pr.Name
LiteralName == [type |-> "Literal"]
\* a pr.Call: one link of a call/attribute chain
MkCall(name, execution, next) ==
    [type |-> "Call", name |-> name, execution |-> execution, next |-> next]
\* a pr.Array; keys is used by the dict kind only (arr.items() pairs them)
MkArray(kind, keys, values) ==
    [type |-> "Array", kind |-> kind, keys |-> keys, values |-> values]
\* an operator token of an expression list
OpToken == [type |-> "Operator"]
\* a pr.Statement: expression_list() and assignment_details (lhs lists)
MkStatement(expression_list, assignment_details) ==
    [type |-> "Statement", expression_list |-> expression_list,
     assignment_details |-> assignment_details]

\* the two identifiers of the scanner's universe
FuncNames == {"f", "g"}
\* the dotted names a link may carry
NameChoices == {<<"f">>, <<"g">>, <<"g", "f">>, <<"f", "g">>}
\* a bare name reference or a literal: a pr.Call without execution and next
Atoms == {MkCall(MkName(ns), NoneV, NoneV) : ns \in NameChoices}
            \cup {MkCall(LiteralName, NoneV, NoneV)}

\* the atoms used as the other operand, key or value
DictAtoms == {MkCall(MkName(<<"f">>), NoneV, NoneV), MkCall(LiteralName, NoneV, NoneV)}

\* bound on the number of syntax nodes of a scanned statement
MaxNodes == 3

(***************************************************************************)
(* _scan_statement                                                         *)
(***************************************************************************)
LinkMatchesNoNameCheck(n, name) == n.type = "Name"

\* line 262: isinstance(n, pr.Name) and search_name in n.names
LinkMatches(n, name) == n.type = "Name" /\ name \in Range(n.names)

RECURSIVE scan_statement(_, _, _)
RECURSIVE scan_array(_, _)
RECURSIVE scan_stmts(_, _, _)
RECURSIVE scan_items(_, _, _)
RECURSIVE scan_chain(_, _, _)
RECURSIVE scan_check(_, _, _)
RECURSIVE ConcatAll(_)

ConcatAll(ss) == IF ss = <<>> THEN <<>> ELSE Head(ss) \o ConcatAll(Tail(ss))

\* lines 245-246: for stmt in arr: result += _scan_statement(stmt, search_name)
scan_stmts(values, i, name) ==
    IF i > Len(values) THEN <<>>
    ELSE scan_statement(values[i], name, FALSE) \o scan_stmts(values, i + 1, name)

\* lines 241-243: for key_stmt, value_stmt in arr.items(): key, then value
scan_items(arr, i, name) ==
    IF i > Len(arr.keys) THEN <<>>
    ELSE scan_statement(arr.keys[i], name, FALSE)
            \o scan_statement(arr.values[i], name, FALSE)
            \o scan_items(arr, i + 1, name)

\* lines 238-247
scan_array(arr, name) ==
    IF arr.kind = "dict" THEN scan_items(arr, 1, name)
    ELSE scan_stmts(arr.values, 1, name)

\* lines 259-267: the while loop over the links of the chain headed by c;
\* a match at any link appends c, the head of the chain
scan_chain(c, s_new, name) ==
    IF s_new.type = "None" THEN <<>>
    ELSE (IF LinkMatches(s_new.name, name) THEN <<c>> ELSE <<>>)
            \o (IF s_new.execution.type # "None"
                   THEN scan_array(s_new.execution, name) ELSE <<>>)
            \o scan_chain(c, s_new.next, name)

\* lines 254-269: the loop over check
scan_check(check, i, name) ==
    IF i > Len(check) THEN <<>>
    ELSE LET c == check[i]
         IN (CASE c.type = "Array" -> scan_array(c, name)
               [] c.type = "Call" -> scan_chain(c, c, name)
               [] OTHER -> <<>>)
            \o scan_check(check, i + 1, name)

\* lines 236-269
scan_statement(s, name, assignment_details) ==
    LET check == s.expression_list
                    \o (IF assignment_details
                           THEN ConcatAll(s.assignment_details) ELSE <<>>)
    IN scan_check(check, 1, name)

(***************************************************************************)
(* The statements the scanner is run on, grown one node at a time.         *)
(***************************************************************************)
ScanPending == scan_out = NoneV /\ stmt_size < MaxNodes

TopCall == stmt.expression_list[1]

\* name(<stmt>): the statement becomes the only argument of a new call
BuildCallArg ==
    /\ ScanPending
    /\ \E ns \in NameChoices :
        stmt' = MkStatement(
            <<MkCall(MkName(ns), MkArray("tuple", <<>>, <<stmt>>), NoneV)>>, <<>>)
    /\ stmt_size' = stmt_size + 1
    /\ UNCHANGED <<scan_out, settings, narrow_vars, world_vars, disc_vars, infer_vars, search_out>>

\* name().<chain> or name.<chain>: a new head link in front of the chain
BuildChain ==
    /\ ScanPending
    /\ Len(stmt.expression_list) = 1 /\ TopCall.type = "Call"
    /\ \E ns \in NameChoices, executed \in BOOLEAN :
        stmt' = MkStatement(
            <<MkCall(MkName(ns),
                     IF executed THEN MkArray("tuple", <<>>, <<>>) ELSE NoneV,
                     TopCall)>>, stmt.assignment_details)
    /\ stmt_size' = stmt_size + 1
    /\ UNCHANGED <<scan_out, settings, narrow_vars, world_vars, disc_vars, infer_vars, search_out>>

\* [<stmt>] or (<stmt>,)
BuildSequence ==
    /\ ScanPending
    /\ \E kind \in {"list", "tuple"} :
        stmt' = MkStatement(<<MkArray(kind, <<>>, <<stmt>>)>>, <<>>)
    /\ stmt_size' = stmt_size + 1
    /\ UNCHANGED <<scan_out, settings, narrow_vars, world_vars, disc_vars, infer_vars, search_out>>

\* {<stmt>: atom} or {atom: <stmt>}
BuildDict ==
    /\ ScanPending
    /\ \E a \in DictAtoms, asKey \in BOOLEAN :
        LET other == MkStatement(<<a>>, <<>>)
        IN stmt' = MkStatement(
            <<MkArray("dict",
                      IF asKey THEN <<stmt>> ELSE <<other>>,
                      IF asKey THEN <<other>> ELSE <<stmt>>)>>, <<>>)
    /\ stmt_size' = stmt_size + 1
    /\ UNCHANGED <<scan_out, settings, narrow_vars, world_vars, disc_vars, infer_vars, search_out>>

\* <stmt> <op> atom
BuildBinary ==
    /\ ScanPending
    /\ \E a \in DictAtoms :
        stmt' = [stmt EXCEPT !.expression_list = @ \o <<OpToken, a>>]
    /\ stmt_size' = stmt_size + 1
    /\ UNCHANGED <<scan_out, settings, narrow_vars, world_vars, disc_vars, infer_vars, search_out>>

\* atom = <stmt>
BuildAssign ==
    /\ ScanPending
    /\ stmt.assignment_details = <<>>
    /\ \E a \in DictAtoms :
        stmt' = [stmt EXCEPT !.assignment_details = <<<<a>>>>]
    /\ stmt_size' = stmt_size + 1
    /\ UNCHANGED <<scan_out, settings, narrow_vars, world_vars, disc_vars, infer_vars, search_out>>

\* one call _scan_statement(stmt, search_name, assignment_details)
Scan ==
    /\ scan_out = NoneV
    /\ \E name \in FuncNames, ad \in BOOLEAN :
        scan_out' = [type |-> "Scan", search_name |-> name,
                     assignment_details |-> ad,
                     result |-> scan_statement(stmt, name, ad)]
    /\ UNCHANGED <<stmt, stmt_size, settings, narrow_vars, world_vars, disc_vars, infer_vars, search_out>>

(***************************************************************************)
(* Scanner claims                                                          *)
(***************************************************************************)
RECURSIVE ChainLinks(_)
\* the links of the call/attribute chain headed by c
ChainLinks(c) == IF c.type = "None" THEN {} ELSE {c} \cup ChainLinks(c.next)

NamesTarget(link, name) ==
    link.name.type = "Name" /\ \E k \in 1..Len(link.name.names) : link.name.names[k] = name

\* C7 (as claimed): every call expression returned by scan has target_name
\* as its invoked name, read generously: target_name is a segment of the
\* returned expression's own dotted name.
C7_ReturnedCallsInvokeTarget ==
    scan_out # NoneV =>
        \A i \in 1..Len(scan_out.result) :
            NamesTarget(scan_out.result[i], scan_out.search_name)

\* C7 (amended): every call expression returned by scan heads a
\* call/attribute chain at least one link of which carries target_name among
\* the segments of its name; an occurrence of target_name in an argument
\* value or elsewhere in the statement never makes a call be returned.
C7_ReturnedChainsNameTarget ==
    scan_out # NoneV =>
        \A i \in 1..Len(scan_out.result) :
            \E link \in ChainLinks(scan_out.result[i]) :
                NamesTarget(link, scan_out.search_name)

\* a chain is returned whose head invokes another name and whose later link
\* names the target, in a statement that also passes the target as an argument
C7_Witness ==
    /\ scan_out # NoneV
    /\ \E i \in 1..Len(scan_out.result) :
        LET c == scan_out.result[i]
        IN /\ ~NamesTarget(c, scan_out.search_name)
           /\ c.next.type = "Call"
           /\ NamesTarget(c.next, scan_out.search_name)
    /\ stmt.expression_list[1].type = "Call"
    /\ stmt.expression_list[1].execution.type = "Array"

(***************************************************************************)
(* Positions: (line, column) tuples, compared as Python compares tuples.   *)
(***************************************************************************)
\* bound on the line numbers of a scope
MaxLine == 3
Columns == {0, 4}
Positions == {[type |-> "Pos", line |-> l, column |-> c] : l \in 1..MaxLine, c \in Columns}

\* a > b on (line, column) tuples
PosGT(a, b) == a.line > b.line \/ (a.line = b.line /\ a.column > b.column)

(***************************************************************************)
(* _check_isinstance_type                                                  *)
(***************************************************************************)
\* str(name): a dotted name as the sequence of its segments
StrName(n) == IF n.type = "Name" THEN n.names ELSE <<"<literal>">>

\* evaluator.eval_call(classes[0]): a name evaluates to the class it names,
\* a tuple of names to an array value holding those classes
eval_call(e) ==
    IF e.type = "Array"
    THEN <<[type |-> "ArrayValue",
            index_types |-> [k \in 1..Len(e.values) |->
                [type |-> "Class",
                 name |-> StrName(e.values[k].expression_list[1].name)]]]>>
    ELSE <<[type |-> "Class", name |-> StrName(e.name)]>>

\* evaluator.execute(typ): the instance of a class
execute(typ) == <<[type |-> "Instance", of |-> typ.name]>>

RECURSIVE ExecuteAll(_)
\* lines 322-323: for typ in ...: result += evaluator.execute(typ)
ExecuteAll(typs) ==
    IF typs = <<>> THEN <<>> ELSE execute(Head(typs)) \o ExecuteAll(Tail(typs))

RECURSIVE InstancesOf(_)
\* lines 321-323
InstancesOf(cs) ==
    IF cs = <<>> THEN <<>>
    ELSE LET c == Head(cs)
         IN ExecuteAll(IF c.type = "ArrayValue" THEN c.index_types ELSE <<c>>)
                \o InstancesOf(Tail(cs))

\* lines 299-316: the assertions of the try block, in order
IsInstanceShape(s, name) ==
    LET expression_list == s.expression_list
        call == expression_list[1]
        isinst == call.execution.values
        obj == isinst[1].expression_list
        classes == isinst[2].expression_list
    IN /\ Len(expression_list) = 1
       /\ call.type = "Call" /\ StrName(call.name) = <<"isinstance">>
       /\ call.execution.type # "None"
       /\ Len(isinst) = 2
       /\ Len(obj) = 1
       /\ Len(classes) = 1
       /\ obj[1].type = "Call"
       /\ StrName(obj[1].name) = <<name>>
       /\ classes[1].type \in {"Call", "Array"}

\* lines 298-324
check_isinstance_type(s, name) ==
    IF ~IsInstanceShape(s, name) THEN <<>>
    ELSE InstancesOf(eval_call(s.expression_list[1].execution.values[2].expression_list[1]))

(***************************************************************************)
(* check_flow_information                                                  *)
(***************************************************************************)
\* line 286: pos is None or ass.start_pos > pos
AssertSkipped(ass, pos) == pos = NoneV \/ PosGT(ass.start_pos, pos)

StopAfterFirstAttempt(result) == TRUE

\* line 289: if result: break
StopOnResult(result) == result # <<>>

RECURSIVE AssertLoop(_, _, _, _)
\* lines 285-290: for ass in reversed(flow.asserts), from index i downwards;
\* yields the result and the indices of the asserts the match was tried on
AssertLoop(asserts, i, name, pos) ==
    IF i = 0 THEN [result |-> <<>>, attempted |-> <<>>]
    ELSE IF AssertSkipped(asserts[i], pos)
         THEN AssertLoop(asserts, i - 1, name, pos)
         ELSE LET result == check_isinstance_type(asserts[i].stmt, name)
              IN IF StopOnResult(result)
                 THEN [result |-> result, attempted |-> <<i>>]
                 ELSE LET rest == AssertLoop(asserts, i - 1, name, pos)
                      IN [result |-> rest.result,
                          attempted |-> <<i>> \o rest.attempted]

\* lines 272-295; ret is the returned value, from_asserts the value of result
\* after the assert block, attempted the asserts the match was tried on and
\* branch_tried whether the match was tried on the flow's condition
check_flow_information(f, name, pos) ==
    IF ~settings.dynamic_flow_information
    THEN [ret |-> NoneV, from_asserts |-> <<>>, attempted |-> <<>>,
          branch_tried |-> FALSE]
    ELSE LET a == IF f.type \in {"Scope", "Module"}
                  THEN AssertLoop(f.asserts, Len(f.asserts), name, pos)
                  ELSE [result |-> <<>>, attempted |-> <<>>]
             branch == /\ f.type = "Flow" /\ a.result = <<>>
                       /\ f.command \in {"if", "while"} /\ Len(f.inputs) = 1
         IN [ret |-> IF branch THEN check_isinstance_type(f.inputs[1], name)
                     ELSE a.result,
             from_asserts |-> a.result,
             attempted |-> a.attempted,
             branch_tried |-> branch]

(***************************************************************************)
(* The flow contexts narrowing is run on.                                  *)
(***************************************************************************)
VarNames == {"x", "y"}
NameRef(n) == MkCall(MkName(<<n>>), NoneV, NoneV)
Args(a, b) == MkArray("tuple", <<>>, <<MkStatement(<<a>>, <<>>), MkStatement(<<b>>, <<>>)>>)
TypeTuple == MkArray("tuple", <<>>,
    <<MkStatement(<<NameRef("int")>>, <<>>), MkStatement(<<NameRef("str")>>, <<>>)>>)

\* isinstance(x, int), isinstance(y, str), isinstance(x, (int, str)),
\* x == 1, isinstance(x), callable(x, int)
GuardStmts ==
    { MkStatement(<<MkCall(MkName(<<"isinstance">>), Args(NameRef("x"), NameRef("int")), NoneV)>>, <<>>),
      MkStatement(<<MkCall(MkName(<<"isinstance">>), Args(NameRef("y"), NameRef("str")), NoneV)>>, <<>>),
      MkStatement(<<MkCall(MkName(<<"isinstance">>), Args(NameRef("x"), TypeTuple), NoneV)>>, <<>>),
      MkStatement(<<NameRef("x"), OpToken, MkCall(LiteralName, NoneV, NoneV)>>, <<>>),
      MkStatement(<<MkCall(MkName(<<"isinstance">>),
            MkArray("tuple", <<>>, <<MkStatement(<<NameRef("x")>>, <<>>)>>), NoneV)>>, <<>>),
      MkStatement(<<MkCall(MkName(<<"callable">>), Args(NameRef("x"), NameRef("int")), NoneV)>>, <<>>) }

\* bound on the number of asserts of a scope
MaxAsserts == 2

MkScope(type, asserts) ==
    [type |-> type, asserts |-> asserts, command |-> "", inputs |-> <<>>]
MkFlow(command, inputs) ==
    [type |-> "Flow", asserts |-> <<>>, command |-> command, inputs |-> inputs]

\* a further assert statement below the scope's last one: flow.asserts is
\* in source order
AddAssert ==
    /\ narrow_out = NoneV
    /\ flow.type \in {"Scope", "Module"}
    /\ Len(flow.asserts) < MaxAsserts
    /\ \E p \in Positions, g \in GuardStmts :
        /\ flow.asserts # <<>> => PosGT(p, flow.asserts[Len(flow.asserts)].start_pos)
        /\ flow' = [flow EXCEPT !.asserts = @ \o <<[start_pos |-> p, stmt |-> g]>>]
    /\ UNCHANGED <<narrow_out, settings, scan_vars, world_vars, disc_vars, infer_vars, search_out>>

\* settings.dynamic_flow_information is set by the user
SetFlowInformation ==
    /\ narrow_out = NoneV
    /\ settings' = [settings EXCEPT !.dynamic_flow_information = ~@]
    /\ UNCHANGED <<flow, narrow_out, scan_vars, world_vars, disc_vars, infer_vars, search_out>>

\* one call check_flow_information(evaluator, flow, search_name, pos)
CheckFlow ==
    /\ narrow_out = NoneV
    /\ \E name \in VarNames, pos \in Positions \cup {NoneV} :
        narrow_out' = [type |-> "Narrow", search_name |-> name, pos |-> pos,
                       out |-> check_flow_information(flow, name, pos)]
    /\ UNCHANGED <<flow, settings, scan_vars, world_vars, disc_vars, infer_vars, search_out>>

(***************************************************************************)
(* Narrowing claims                                                        *)
(***************************************************************************)
NarrowedScope ==
    /\ narrow_out # NoneV
    /\ settings.dynamic_flow_information
    /\ flow.type \in {"Scope", "Module"}

\* the match of the k-th assert of the scope against the queried name
MatchOf(k) == check_isinstance_type(flow.asserts[k].stmt, narrow_out.search_name)

\* the asserts that start strictly before the query position
AssertsBefore ==
    IF narrow_out.pos = NoneV THEN {}
    ELSE {k \in 1..Len(flow.asserts) : PosGT(narrow_out.pos, flow.asserts[k].start_pos)}

\* the asserts line 286 does not skip
AssertsNotSkipped ==
    IF narrow_out.pos = NoneV THEN {}
    ELSE {k \in 1..Len(flow.asserts) : ~PosGT(flow.asserts[k].start_pos, narrow_out.pos)}

SetMax(S) == CHOOSE m \in S : \A k \in S : k <= m

\* C4 (as claimed): the type-guard match is never attempted on an assert
\* whose start position is at or after pos; only asserts strictly before
\* pos are tried.
C4_OnlyAssertsStrictlyBefore ==
    narrow_out # NoneV =>
        \A j \in 1..Len(narrow_out.out.attempted) :
            narrow_out.out.attempted[j] \in AssertsBefore

\* C8 (as claimed): with dynamic_flow_information false, narrow returns an
\* empty sequence and attempts no type-guard match.
C8_DisabledReturnsEmptySequence ==
    (narrow_out # NoneV /\ ~settings.dynamic_flow_information) =>
        /\ narrow_out.out.ret = <<>>
        /\ narrow_out.out.attempted = <<>>
        /\ ~narrow_out.out.branch_tried

\* C9 (as claimed), on the queries where no assert starts exactly at the
\* position: the match is attempted on exactly one assert, the last one
\* before the position, and the result of assert narrowing is that match.
C9_ExactlyOneAssertTried ==
    (NarrowedScope /\ AssertsBefore = AssertsNotSkipped) =>
        IF AssertsBefore = {}
        THEN narrow_out.out.attempted = <<>> /\ narrow_out.out.from_asserts = <<>>
        ELSE /\ narrow_out.out.attempted = <<SetMax(AssertsBefore)>>
             /\ narrow_out.out.from_asserts = MatchOf(SetMax(AssertsBefore))

\* C9 (amended): for a scope context, assert narrowing tries the asserts
\* that the position filter lets through, from the last one in source order
\* backwards, up to and including the first whose match is non-empty; the
\* result is that match (empty when no match succeeds). A failed match makes
\* the next earlier assert be consulted.
C9_LastMatchingAssertWins ==
    NarrowedScope =>
        LET hits == {k \in AssertsNotSkipped : MatchOf(k) # <<>>}
            att == narrow_out.out.attempted
        IN /\ {att[j] : j \in 1..Len(att)}
                = {k \in AssertsNotSkipped : \A h \in hits : h <= k}
           /\ \A j \in 1..Len(att) - 1 : att[j] > att[j + 1]
           /\ narrow_out.out.from_asserts
                = IF hits = {} THEN <<>> ELSE MatchOf(SetMax(hits))

\* the last assert before the position fails to match and an earlier one
\* supplies the result
C9_Witness ==
    /\ NarrowedScope
    /\ Len(narrow_out.out.attempted) = 2
    /\ narrow_out.out.from_asserts # <<>>
    /\ MatchOf(narrow_out.out.attempted[1]) = <<>>

(***************************************************************************)
(* Paths, files and modules                                                *)
(***************************************************************************)
\* bound on the number of .py files of the seed module's directory
MaxFiles == 2

\* a path <dir>/<entry>; paths sort by directory, then entry. Directory 1 is
\* the current module's, directory 2 holds the configured extra module.
\* Entry 0 is a file whose name does not end in ".py".
MkPath(d, e) == [type |-> "Path", dir |-> d, entry |-> e]
SeedPath == MkPath(1, 1)
NonPyPath == MkPath(1, 0)
ExtraPath == MkPath(2, 1)
PyPaths == {MkPath(1, e) : e \in 1..MaxFiles} \cup {ExtraPath}
AllPaths == PyPaths \cup {NonPyPath}

\* entry.endswith('.py')
EntryEndsWithPy(entry) == entry # 0

\* path.endswith('.py')
EndsWithPy(path) == EntryEndsWithPy(path.entry)

PathLess(p, q) == p.dir < q.dir \/ (p.dir = q.dir /\ p.entry < q.entry)

RECURSIVE Sorted(_)
\* sorted(paths)
Sorted(S) ==
    IF S = {} THEN <<>>
    ELSE LET m == CHOOSE x \in S : \A y \in S : x = y \/ PathLess(x, y)
         IN <<m>> \o Sorted(S \ {m})

\* the function name searched for, and file texts
TargetText == <<"f", "o">>
FileKinds ==
    { [readable |-> "ok", text |-> <<"a", "f", "o">>],
      [readable |-> "ok", text |-> <<"o", "f", "x", "o">>],
      [readable |-> "IOError", text |-> <<>>],
      [readable |-> "UnicodeDecodeError", text |-> <<>>] }

\* name in source
IsSubstring(name, source) ==
    \E i \in 0..(Len(source) - Len(name)) :
        SubSeq(source, i + 1, i + Len(name)) = name

\* a module object: the one the session already holds for a path (found in
\* the parser cache when the path is cached), or one load_module just made
MkModule(path, origin) == [type |-> "Module", path |-> path, origin |-> origin]

(***************************************************************************)
(* get_directory_modules_for_name                                          *)
(***************************************************************************)
\* no exception raised
NoExc == "none"

NameFilterAlwaysPasses(name, source) == TRUE

\* line 85: if name in source
NameInSource(name, source) == IsSubstring(name, source)

\* line 79: except IOError
CaughtByCheckPythonFile(exc) == exc = "IOError"

\* lines 82-87: open and read the file (either may raise), then parse it
\* when the name occurs in its text; returns None otherwise
check_fs(path, name) ==
    LET file == fs[path]
    IN IF file.readable # "ok"
       THEN [exc |-> file.readable, value |-> NoneV, did |-> "failed"]
       ELSE IF NameInSource(name, file.text)
            THEN [exc |-> NoExc, value |-> MkModule(path, "loaded"), did |-> "loaded"]
            ELSE [exc |-> NoExc, value |-> NoneV, did |-> "filtered"]

\* lines 73-80
check_python_file(path, name) ==
    IF path \in parser_cache
    THEN [exc |-> NoExc, value |-> MkModule(path, "session"), did |-> "cached"]
    ELSE LET r == check_fs(path, name)
         IN IF r.exc # NoExc /\ CaughtByCheckPythonFile(r.exc)
            THEN [exc |-> NoExc, value |-> NoneV, did |-> "failed"]
            ELSE r

\* os.listdir(d)
ListDir(d) == {p.entry : p \in {q \in DOMAIN fs : q.dir = d}}

\* line 102: entry in mod_paths, a file name looked up among whole paths:
\* true only of a module path that has no directory part (directory 0)
EntryInModPaths(entry, mod_paths) ==
    \E p \in mod_paths : p # NoneV /\ p.dir = 0 /\ p.entry = entry

\* lines 97-104
CandidatePaths(mod_paths) ==
    settings.additional_dynamic_modules
        \cup UNION { {MkPath(p.dir, e) :
                        e \in {x \in ListDir(p.dir) :
                                  /\ ~EntryInModPaths(x, mod_paths)
                                  /\ EntryEndsWithPy(x)}} :
                     p \in {q \in mod_paths : q # NoneV} }

\* line 90: the modules without path or with a path ending in .py
PythonModules(mods) == {m \in mods : m.path = NoneV \/ EndsWithPy(m.path)}

RECURSIVE SeqOfSet(_)
SeqOfSet(S) ==
    IF S = {} THEN <<>>
    ELSE LET m == CHOOSE x \in S : TRUE IN <<m>> \o SeqOfSet(S \ {m})

\* the generator object, before its first next()
NewGenerator(mods, name) ==
    [pc |-> "start", name |-> name, mods |-> mods, todo_mods |-> <<>>,
     mod_paths |-> {}, paths |-> <<>>]

NoGenerator == [pc |-> "none"]

RECURSIVE RunPaths(_, _)
\* lines 106-110: the loop over sorted(paths), up to the next yield, the end
\* of the loop or an exception
RunPaths(g, log) ==
    IF g.paths = <<>>
    THEN [gen |-> [g EXCEPT !.pc = "done"], item |-> NoneV, exc |-> NoExc, log |-> log]
    ELSE LET p == Head(g.paths)
             c == check_python_file(p, g.name)
             g2 == [g EXCEPT !.paths = Tail(@)]
             yields == c.exc = NoExc /\ c.value # NoneV /\ c.value \notin g.mods
             entry == [path |-> p, did |-> c.did, exc |-> c.exc, yielded |-> yields]
         IN IF c.exc # NoExc
            THEN [gen |-> [g2 EXCEPT !.pc = "raised"], item |-> NoneV,
                  exc |-> c.exc, log |-> log \o <<entry>>]
            ELSE IF yields
                 THEN [gen |-> g2, item |-> c.value, exc |-> NoExc,
                       log |-> log \o <<entry>>]
                 ELSE RunPaths(g2, log \o <<entry>>)

\* lines 92-104: the loop over mods, then, with cross-module search enabled,
\* the candidate paths
RunSeeds(g) ==
    IF g.todo_mods # <<>>
    THEN LET m == Head(g.todo_mods)
         IN [gen |-> [g EXCEPT !.todo_mods = Tail(@),
                               !.mod_paths = @ \cup {m.path}],
             item |-> m, exc |-> NoExc, log |-> <<>>]
    ELSE IF ~settings.dynamic_params_for_other_modules
         THEN [gen |-> [g EXCEPT !.pc = "done"], item |-> NoneV, exc |-> NoExc,
               log |-> <<>>]
         ELSE RunPaths([g EXCEPT !.pc = "paths",
                                 !.paths = Sorted(CandidatePaths(g.mod_paths))], <<>>)

\* next(generator): lines 89-110, from where the generator stands to its
\* next yield (item), its end (item None) or an exception (exc)
gen_next(g) ==
    CASE g.pc = "start" ->
            LET mods == PythonModules(g.mods)
            IN RunSeeds([g EXCEPT !.pc = "seeds", !.mods = mods,
                                  !.todo_mods = SeqOfSet(mods)])
      [] g.pc = "seeds" -> RunSeeds(g)
      [] g.pc = "paths" -> RunPaths(g, <<>>)

GenSuspended == gen.pc \in {"start", "seeds", "paths"}

\* the current module of a search: without path, a .py file or another file
SeedModules ==
    {MkModule(NoneV, "session"), MkModule(SeedPath, "session"),
     MkModule(NonPyPath, "session")}

\* get_directory_modules_for_name([module], name) is called
DiscoverCall ==
    /\ gen = NoGenerator
    /\ \E m \in SeedModules : gen' = NewGenerator({m}, TargetText)
    /\ yielded' = <<>>
    /\ disc_log' = <<>>
    /\ UNCHANGED <<settings, world_vars, scan_vars, narrow_vars, infer_vars, search_out>>

\* the caller takes the next module from the generator
DiscoverNext ==
    /\ GenSuspended
    /\ LET r == gen_next(gen)
       IN /\ gen' = r.gen
          /\ yielded' = IF r.item # NoneV THEN Append(yielded, r.item) ELSE yielded
          /\ disc_log' = disc_log \o r.log
    /\ UNCHANGED <<settings, world_vars, scan_vars, narrow_vars, infer_vars, search_out>>

(***************************************************************************)
(* Discovery claims                                                        *)
(***************************************************************************)
LacksName(path) ==
    fs[path].readable = "ok" /\ ~IsSubstring(TargetText, fs[path].text)

\* C5 (as claimed): a candidate file reached in the second step whose text
\* does not contain the name is neither parsed nor yielded, cached or not.
C5_FilesWithoutNameNeverYielded ==
    \A k \in 1..Len(disc_log) :
        LacksName(disc_log[k].path) =>
            disc_log[k].did # "loaded" /\ ~disc_log[k].yielded

\* C5 (amended): a candidate file reached in the second step that is not in
\* the session's parser cache and whose text does not contain the name is
\* neither parsed nor yielded.
C5_UncachedFilesWithoutNameFiltered ==
    \A k \in 1..Len(disc_log) :
        (LacksName(disc_log[k].path) /\ disc_log[k].path \notin parser_cache) =>
            disc_log[k].did = "filtered" /\ ~disc_log[k].yielded

\* an uncached file without the name was read and dropped, and a later
\* candidate was still yielded
C5_Witness ==
    \E k \in 1..Len(disc_log) :
        /\ LacksName(disc_log[k].path) /\ disc_log[k].path \notin parser_cache
        /\ disc_log[k].did = "filtered"
        /\ \E j \in (k + 1)..Len(disc_log) : disc_log[j].yielded

\* C6 (as claimed): a candidate file that cannot be read or decoded is
\* skipped, no error leaves discover, and every later candidate path is
\* still examined.
C6_FileFailuresAreSkipped ==
    /\ gen.pc # "raised"
    /\ \A k \in 1..Len(disc_log) : disc_log[k].exc = NoExc
    /\ (gen.pc = "done" /\ settings.dynamic_params_for_other_modules) =>
            [k \in 1..Len(disc_log) |-> disc_log[k].path]
                = Sorted(CandidatePaths(gen.mod_paths))

(***************************************************************************)
(* search_params                                                           *)
(***************************************************************************)
\* bound on the number of statements of a module that reference the name
MaxStmts == 2
\* bound on the number of search_params calls of a session
MaxInferCalls == 2

\* a call path: the name parts and executions of a call chain, in order;
\* every element is a sequence of characters, an execution is "()"
ExecPart == <<"(", ")">>
OtherName == <<"g">>

\* the function whose parameters are searched: def fo(a, *b) in the module
\* at SeedPath
TheFunction == [name |-> TargetText, parent_class |-> NoneV]
Params ==
    { [id |-> "a", func |-> TheFunction, expression_list |-> <<"a">>],
      [id |-> "b", func |-> TheFunction, expression_list |-> <<"*", "b">>] }

\* lines 204-208
SearchNameOf(func) ==
    IF func.name = <<"_", "_", "i", "n", "i", "t", "_", "_">> /\ func.parent_class # NoneV
    THEN func.parent_class ELSE func.name

\* lines 216-217
ParamNameOf(param) ==
    LET offset == IF param.expression_list[1] \in {"*", "**"} THEN 1 ELSE 0
    IN param.expression_list[1 + offset]

\* one execution of the function seen by the listener: the params it was
\* given, each with the values eval_statement finds for it
Observations ==
    { << [name |-> "a", values |-> <<"int">>], [name |-> "b", values |-> <<"str">>] >>,
      << [name |-> "a", values |-> <<>>], [name |-> "b", values |-> <<"int">>] >> }

\* a call found by _scan_statement, with what the evaluator does for it:
\* the observations the listener gets while eval_call_path resolves first
\* and while follow_path executes last, whether find_name leads to the
\* searched function, and whether follow_path raises
MkFound(call_path, during_first, is_target, during_last, raises) ==
    [call_path |-> call_path, during_first |-> during_first,
     is_target |-> is_target, during_last |-> during_last, raises |-> raises]

FoundCalls ==
    {MkFound(<<TargetText, ExecPart>>, <<>>, TRUE, <<o>>, FALSE) : o \in Observations}
    \cup
    { MkFound(<<TargetText>>, <<>>, TRUE, <<>>, FALSE),
      MkFound(<<OtherName, TargetText>>, <<>>, TRUE, <<>>, FALSE),
      MkFound(<<TargetText, ExecPart, TargetText>>,
              <<CHOOSE o \in Observations : o[1].values # <<>>>>, FALSE, <<>>, FALSE),
      MkFound(<<OtherName, TargetText, ExecPart>>, <<>>, FALSE, <<>>, FALSE),
      MkFound(<<TargetText, ExecPart, OtherName>>, <<>>, TRUE,
              <<CHOOSE o \in Observations : o[1].values # <<>>>>, FALSE),
      MkFound(<<TargetText, ExecPart>>, <<>>, TRUE, <<>>, TRUE) }

ImportStmt == [type |-> "Import", calls |-> <<>>]
StmtsOfModule ==
    {ImportStmt} \cup {[type |-> "Statement", calls |-> <<c>>] : c \in FoundCalls}
        \cup {[type |-> "Statement",
               calls |-> <<MkFound(<<TargetText, ExecPart, TargetText>>, <<>>, TRUE, <<>>, FALSE),
                           MkFound(<<TargetText>>, <<>>, TRUE, <<>>, FALSE)>>]}

\* module.used_names[func_name]: absent (KeyError), or the statements
KeyErrorV == [present |-> FALSE, stmts |-> <<>>]
RECURSIVE SeqsUpTo(_, _)
SeqsUpTo(S, n) ==
    IF n = 0 THEN {<<>>}
    ELSE SeqsUpTo(S, n - 1)
            \cup {Append(q, x) : q \in {r \in SeqsUpTo(S, n - 1) : Len(r) = n - 1}, x \in S}
UsedNamesEntries ==
    {KeyErrorV} \cup {[present |-> TRUE, stmts |-> q] : q \in SeqsUpTo(StmtsOfModule, MaxStmts)}

\* the entries whose statements hold one plain call fo(...) each, a bare
\* reference or an import: the module contents a whole search is run on
PlainStmts ==
    {s \in StmtsOfModule :
        \A k \in 1..Len(s.calls) :
            s.calls[k].call_path \in {<<TargetText, ExecPart>>, <<TargetText>>}}
PlainUsedNamesEntries ==
    {KeyErrorV} \cup {[present |-> TRUE, stmts |-> q] : q \in SeqsUpTo(PlainStmts, MaxStmts)}

\* lst.index(value): 0-based index of the first occurrence
ListIndex(lst, value) ==
    (CHOOSE k \in 1..Len(lst) : lst[k] = value /\ \A j \in 1..(k - 1) : lst[j] # value) - 1

\* lines 166-167: 0-based index of the last occurrence
listRightIndex(lst, value) ==
    (CHOOSE k \in 1..Len(lst) : lst[k] = value /\ \A j \in (k + 1)..Len(lst) : lst[j] # value) - 1

SkippedWhenEarlierUse(call_path, func_name) ==
    LET i == listRightIndex(call_path, func_name)
        lastpart == SubSeq(call_path, i + 2, Len(call_path))
    IN lastpart = <<>> /\ ListIndex(call_path, func_name) # i

\* lines 171-174: if not last and not call_path.index(func_name) != i: continue
SkippedCall(call_path, func_name) ==
    LET i == listRightIndex(call_path, func_name)
        lastpart == SubSeq(call_path, i + 2, Len(call_path))
    IN lastpart = <<>> /\ ~(ListIndex(call_path, func_name) # i)

RECURSIVE AllCalls(_)
\* lines 152-156: the calls of the statements that are not imports
AllCalls(stmts) ==
    IF stmts = <<>> THEN <<>>
    ELSE (IF Head(stmts).type = "Import" THEN <<>> ELSE Head(stmts).calls)
            \o AllCalls(Tail(stmts))

RECURSIVE HandleCalls(_, _, _, _)
\* lines 156-191 for the calls from index k on; pp is
\* listener.param_possibilities, handled the log of what was done per call
HandleCalls(calls, k, func_name, acc) ==
    IF k > Len(calls) THEN acc
    ELSE LET c == calls[k]
             i == listRightIndex(c.call_path, func_name)
             first == SubSeq(c.call_path, 1, i)
         IN IF SkippedCall(c.call_path, func_name)
            THEN HandleCalls(calls, k + 1, func_name,
                    [acc EXCEPT !.handled = Append(@, [call_path |-> c.call_path, skipped |-> TRUE])])
            ELSE LET pp1 == acc.pp \o (IF first # <<>> THEN c.during_first ELSE <<>>)
                     entry == [call_path |-> c.call_path, skipped |-> FALSE]
                 IN IF c.is_target /\ c.raises
                    THEN [pp |-> pp1, handled |-> Append(acc.handled, entry),
                          exc |-> "EvaluatorError"]
                    ELSE HandleCalls(calls, k + 1, func_name,
                            [pp |-> pp1 \o (IF c.is_target THEN c.during_last ELSE <<>>),
                             handled |-> Append(acc.handled, entry),
                             exc |-> NoExc])

\* lines 146-193: get_posibilities for a module whose used_names entry for
\* func_name is used; returns listener.param_possibilities
get_posibilities(used, func_name, pp) ==
    IF ~used.present
    THEN [pp |-> pp, returned |-> <<>>, handled |-> <<>>, exc |-> NoExc]
    ELSE LET r == HandleCalls(AllCalls(used.stmts), 1, func_name,
                              [pp |-> pp, handled |-> <<>>, exc |-> NoExc])
         IN [pp |-> r.pp, returned |-> r.pp, handled |-> r.handled, exc |-> r.exc]

RECURSIVE ValuesOf(_, _)
\* lines 197-199: the values of the params named param_name
ValuesOf(params, param_name) ==
    IF params = <<>> THEN <<>>
    ELSE (IF Head(params).name = param_name THEN Head(params).values ELSE <<>>)
            \o ValuesOf(Tail(params), param_name)

RECURSIVE ResultOf(_, _)
\* lines 195-200
ResultOf(possibilities, param_name) ==
    IF possibilities = <<>> THEN <<>>
    ELSE ValuesOf(Head(possibilities), param_name)
            \o ResultOf(Tail(possibilities), param_name)

\* lines 141-200: get_params_for_module
get_params_for_module(used, func_name, param_name, pp) ==
    LET r == get_posibilities(used, func_name, pp)
    IN [pp |-> r.pp, exc |-> r.exc,
        result |-> IF r.exc = NoExc THEN ResultOf(r.returned, param_name) ELSE <<>>]

NeverBreaks(result) == FALSE

\* lines 227-228: if result: break
BreaksOnResult(result) == result # <<>>

NoCall == [type |-> "None"]

\* an entry of the memoize table of search_params
NotMemoized == [stored |-> FALSE, value |-> <<>>]
Memoized(value) == [stored |-> TRUE, value |-> value]

Ended(kind, param, ret, before, searched) ==
    [type |-> "Ended", kind |-> kind, param |-> param.id, ret |-> ret,
     dynamic_params |-> settings.dynamic_params,
     listeners_before |-> before, searched |-> searched]

\* search_params(evaluator, param) is called: the memoize wrapper answers
\* from its table, else lines 138-221 run
InferCall ==
    /\ ipc = "idle"
    /\ ncalls < MaxInferCalls
    /\ ncalls' = ncalls + 1
    /\ \E param \in Params :
        IF memo[param.id].stored
        THEN /\ last' = Ended("memo", param, memo[param.id].value, listeners, <<>>)
             /\ UNCHANGED <<ipc, cur, listeners, memo, disc_vars>>
        ELSE IF ~settings.dynamic_params
        THEN /\ last' = Ended("disabled", param, <<>>, listeners, <<>>)
             /\ memo' = [memo EXCEPT ![param.id] = Memoized(<<>>)]
             /\ UNCHANGED <<ipc, cur, listeners, disc_vars>>
        ELSE /\ cur' = [param |-> param,
                        func_name |-> SearchNameOf(param.func),
                        param_name |-> ParamNameOf(param),
                        listener |-> ncalls + 1,
                        pp |-> <<>>,
                        mod |-> NoneV,
                        result |-> <<>>,
                        searched |-> <<>>,
                        listeners_before |-> listeners]
             /\ listeners' = listeners \cup {ncalls + 1}
             /\ gen' = NewGenerator({MkModule(SeedPath, "session")},
                                    SearchNameOf(param.func))
             /\ yielded' = <<>>
             /\ disc_log' = <<>>
             /\ ipc' = "loop"
             /\ UNCHANGED <<memo, last>>
    /\ UNCHANGED <<settings, world_vars, scan_vars, narrow_vars, search_out>>

\* line 225: the for statement takes the next module from discovery
InferPull ==
    /\ ipc = "loop"
    /\ LET r == gen_next(gen)
       IN /\ gen' = r.gen
          /\ yielded' = IF r.item # NoneV THEN Append(yielded, r.item) ELSE yielded
          /\ disc_log' = disc_log \o r.log
          /\ IF r.exc # NoExc
             THEN /\ ipc' = "idle"
                  /\ last' = Ended("raised", cur.param, <<>>, cur.listeners_before, cur.searched)
                  /\ cur' = NoCall
             ELSE /\ ipc' = IF r.item = NoneV THEN "cleanup" ELSE "search"
                  /\ cur' = [cur EXCEPT !.mod = r.item]
                  /\ UNCHANGED last
    /\ UNCHANGED <<listeners, memo, ncalls>>
    /\ UNCHANGED <<settings, world_vars, scan_vars, narrow_vars, search_out>>

\* lines 226-228: the per-module search of the module just taken
InferSearch ==
    /\ ipc = "search"
    /\ \E used \in PlainUsedNamesEntries :
        LET r == get_params_for_module(used, cur.func_name, cur.param_name, cur.pp)
            own == get_params_for_module(used, cur.func_name, cur.param_name, <<>>)
            entry == [mod |-> cur.mod, result |-> r.result, own |-> own.result]
        IN IF r.exc # NoExc
           THEN /\ ipc' = "idle"
                /\ last' = Ended("raised", cur.param, <<>>, cur.listeners_before, cur.searched)
                /\ cur' = NoCall
           ELSE /\ ipc' = IF BreaksOnResult(r.result) THEN "cleanup" ELSE "loop"
                /\ cur' = [cur EXCEPT !.pp = r.pp, !.result = r.result,
                                      !.searched = Append(@, entry)]
                /\ UNCHANGED last
    /\ UNCHANGED <<listeners, memo, ncalls, disc_vars>>
    /\ UNCHANGED <<settings, world_vars, scan_vars, narrow_vars, search_out>>

\* lines 231-233, and the memoize wrapper storing the returned value
InferReturn ==
    /\ ipc = "cleanup"
    /\ listeners' = listeners \ {cur.listener}
    /\ memo' = [memo EXCEPT ![cur.param.id] = Memoized(cur.result)]
    /\ last' = Ended("returned", cur.param, cur.result, cur.listeners_before, cur.searched)
    /\ cur' = NoCall
    /\ ipc' = "idle"
    /\ UNCHANGED <<ncalls, disc_vars>>
    /\ UNCHANGED <<settings, world_vars, scan_vars, narrow_vars, search_out>>

\* settings.dynamic_params is set by the user, between calls
SetDynamicParams ==
    /\ ipc = "idle"
    /\ settings' = [settings EXCEPT !.dynamic_params = ~@]
    /\ UNCHANGED <<world_vars, disc_vars, infer_vars, scan_vars, narrow_vars, search_out>>

\* one per-module search with a listener of its own
SearchModule ==
    /\ search_out = NoneV
    /\ \E used \in UsedNamesEntries :
        search_out' = [type |-> "Search", used |-> used,
                       out |-> get_posibilities(used, TargetText, <<>>)]
    /\ UNCHANGED <<settings, world_vars, disc_vars, infer_vars, scan_vars, narrow_vars>>

(***************************************************************************)
(* Inference claims                                                        *)
(***************************************************************************)
CallEnded == ipc = "idle" /\ last # NoCall

\* C1 (as claimed): after every call of infer, on every exit path, the
\* listener set of the function equals the set before the call.
C1_ListenersRestoredAfterCall ==
    CallEnded => listeners = last.listeners_before

\* C2 (as claimed): a call of infer made while dynamic_params is false
\* returns the empty sequence, whatever calls were made before.
C2_DisabledReturnsEmpty ==
    (CallEnded /\ last.kind # "raised" /\ ~last.dynamic_params) => last.ret = <<>>

\* C3: infer searches the candidate modules in discovery order and returns
\* the result of the first module whose per-module search is non-empty,
\* taking no further module from discovery; earlier modules gave empty
\* results, and with no non-empty result every candidate was searched and
\* the empty sequence is returned.
C3_FirstNonEmptyModuleWins ==
    (CallEnded /\ last.kind = "returned") =>
        LET s == last.searched
            n == Len(s)
        IN /\ n = Len(yielded)
           /\ \A k \in 1..n : s[k].mod = yielded[k]
           /\ \A k \in 1..(n - 1) : s[k].result = <<>> /\ s[k].own = <<>>
           /\ IF n > 0 /\ s[n].result # <<>>
              THEN /\ last.ret = s[n].result
                   /\ last.ret = s[n].own
                   /\ GenSuspended
              ELSE /\ last.ret = <<>>
                   /\ gen.pc = "done"

\* the first candidate gave nothing for the parameter although calls were
\* observed there, and the second candidate's result was returned
C3_Witness ==
    /\ CallEnded /\ last.kind = "returned"
    /\ Len(last.searched) = 2
    /\ last.searched[1].result = <<>>
    /\ last.ret # <<>>
    /\ last.ret = last.searched[2].own

(***************************************************************************)
(* Per-module search claims                                                *)
(***************************************************************************)
Occurrences(path, name) == {k \in 1..Len(path) : path[k] = name}

\* C10 (as claimed): a match is skipped exactly when last is empty and the
\* first occurrence of the search name is not at the split index i.
C10_SkippedWhenFirstOccurrenceElsewhere ==
    search_out # NoneV =>
        \A k \in 1..Len(search_out.out.handled) :
            LET h == search_out.out.handled[k]
                i == listRightIndex(h.call_path, TargetText)
            IN h.skipped <=> (/\ SubSeq(h.call_path, i + 2, Len(h.call_path)) = <<>>
                              /\ ListIndex(h.call_path, TargetText) # i)

\* C10 (amended): a match is skipped exactly when last is empty and the
\* first occurrence of the search name is at the split index i, that is
\* when the path ends with the only occurrence of the search name; in every
\* other case the match is processed.
C10_SkippedWhenNameEndsPathOnce ==
    search_out # NoneV =>
        \A k \in 1..Len(search_out.out.handled) :
            LET h == search_out.out.handled[k]
                n == Len(h.call_path)
            IN h.skipped <=> (/\ h.call_path[n] = TargetText
                              /\ Occurrences(h.call_path, TargetText) = {n})

\* one match that ends with the only occurrence of the name was skipped and
\* one that ends with a second occurrence was processed
C10_Witness ==
    /\ search_out # NoneV
    /\ \E k \in 1..Len(search_out.out.handled) :
        /\ search_out.out.handled[k].skipped
        /\ search_out.out.handled[k].call_path = <<TargetText>>
    /\ \E k \in 1..Len(search_out.out.handled) :
        /\ ~search_out.out.handled[k].skipped
        /\ search_out.out.handled[k].call_path = <<TargetText, ExecPart, TargetText>>

\* the settings as jedi ships them
DefaultSettings ==
    [dynamic_params |-> TRUE, dynamic_params_for_other_modules |-> TRUE,
     additional_dynamic_modules |-> {}, dynamic_flow_information |-> TRUE]

InferIdle ==
    /\ ipc = "idle" /\ cur = NoCall /\ listeners = {} /\ last = NoCall /\ ncalls = 0
    /\ memo = [p \in {"a", "b"} |-> NotMemoized]
DiscoverIdle == gen = NoGenerator /\ yielded = <<>> /\ disc_log = <<>>
WorldIdle == fs = NoneV /\ parser_cache = {}
ScanIdle == stmt = NoneV /\ stmt_size = 0 /\ scan_out = NoneV
NarrowIdle == flow = NoneV /\ narrow_out = NoneV

InitScan ==
    /\ stmt \in {MkStatement(<<a>>, <<>>) : a \in Atoms}
    /\ stmt_size = 1
    /\ scan_out = NoneV
    /\ settings = DefaultSettings
    /\ NarrowIdle
    /\ WorldIdle
    /\ DiscoverIdle
    /\ InferIdle
    /\ search_out = NoneV

NextScan ==
    \/ BuildCallArg
    \/ BuildChain
    \/ BuildSequence
    \/ BuildDict
    \/ BuildBinary
    \/ BuildAssign
    \/ Scan

SpecScan == InitScan /\ [][NextScan]_vars

InitNarrow ==
    /\ flow \in {MkScope("Scope", <<>>), MkScope("Module", <<>>)}
            \cup {MkFlow(c, <<g>>) : c \in {"if", "while", "for"}, g \in GuardStmts}
            \cup {MkFlow("if", <<g, g>>) : g \in GuardStmts}
    /\ narrow_out = NoneV
    /\ settings = DefaultSettings
    /\ ScanIdle
    /\ WorldIdle
    /\ DiscoverIdle
    /\ InferIdle
    /\ search_out = NoneV

NextNarrow ==
    \/ AddAssert
    \/ SetFlowInformation
    \/ CheckFlow

SpecNarrow == InitNarrow /\ [][NextNarrow]_vars

\* the file systems: every .py path holds a file of one of the kinds
FileSystems ==
    {[p \in AllPaths |-> IF p = NonPyPath THEN [readable |-> "ok", text |-> TargetText]
                         ELSE f[p]] : f \in [PyPaths -> FileKinds]}

InitDiscover ==
    /\ fs \in FileSystems
    /\ parser_cache \in SUBSET PyPaths
    /\ settings \in {[DefaultSettings EXCEPT !.dynamic_params_for_other_modules = o,
                                             !.additional_dynamic_modules = a] :
                        o \in BOOLEAN, a \in {{}, {ExtraPath}}}
    /\ DiscoverIdle
    /\ InferIdle
    /\ search_out = NoneV
    /\ ScanIdle
    /\ NarrowIdle

NextDiscover ==
    \/ DiscoverCall
    \/ DiscoverNext

SpecDiscover == InitDiscover /\ [][NextDiscover]_vars

\* the seed module is cached and no extra module is configured: only the
\* sibling files matter to a search
InitInfer ==
    /\ fs \in {f \in FileSystems : f[SeedPath] = f[ExtraPath]
                                    /\ f[SeedPath].readable = "IOError"}
    /\ parser_cache = {SeedPath}
    /\ settings \in {[DefaultSettings EXCEPT !.dynamic_params_for_other_modules = o] :
                        o \in BOOLEAN}
    /\ DiscoverIdle
    /\ InferIdle
    /\ search_out = NoneV
    /\ ScanIdle
    /\ NarrowIdle

NextInfer ==
    \/ InferCall
    \/ InferPull
    \/ InferSearch
    \/ InferReturn
    \/ SetDynamicParams

SpecInfer == InitInfer /\ [][NextInfer]_vars

InitSearch ==
    /\ settings = DefaultSettings
    /\ WorldIdle
    /\ DiscoverIdle
    /\ InferIdle
    /\ search_out = NoneV
    /\ ScanIdle
    /\ NarrowIdle

NextSearch == SearchModule

SpecSearch == InitSearch /\ [][NextSearch]_vars

====
